---- MODULE Spec2Model ----
(***************************************************************************)
(* Model of the Reddit commenting tool:                                    *)
(*   utilities/reddit_commenter.py  RedditCommentAPIWrapper                *)
(*   tools/reddit/comment.py        RedditCommentSchema, RedditCommentRun  *)
(*                                                                         *)
(* The constructor inputs (explicit keyword values, process environment,   *)
(* presence of the praw package) are drawn in Init.  The remote service is *)
(* the environment: each remote call either returns or raises, the choice  *)
(* being made by the action that models the invocation.                    *)
(***************************************************************************)
EXTENDS Integers, Sequences, FiniteSets, TLC

VARIABLES
    values,         \* keyword arguments handed to RedditCommentAPIWrapper(...)
    env,            \* os.environ, restricted to the five REDDIT_* names
    prawAvailable,  \* TRUE iff "import praw" succeeds
    phase,          \* "init" | "constructed" | "failed"
    wrapper,        \* <<>> or <<the constructed RedditCommentAPIWrapper>>
    sessions,       \* log of praw.Reddit(...) calls: the handles they returned
    calls,          \* log of remote calls made through a session handle
    comments,       \* comments that exist on the remote service
    runs,           \* log of RedditCommentAPIWrapper.run invocations
    last,           \* arguments and outcome of the latest operation
    rejected        \* number of tool invocations refused by the input schema

vars == <<values, env, prawAvailable, phase, wrapper, sessions, calls,
          comments, runs, last, rejected>>

\* Bound on the number of tool / run invocations explored after construction.
MaxRuns == 2

\* Python's None, and the marker of a key that is absent from a dict.
None == "<None>"
Missing == "<missing>"

----------------------------------------------------------------------------
(* Credentials *)

\* The five credential fields, in the order validate_environment resolves them.
CredentialFields == <<"reddit_client_id", "reddit_client_secret",
                      "reddit_user_agent", "reddit_username",
                      "reddit_password">>

FieldSet == {CredentialFields[i] : i \in 1..Len(CredentialFields)}

\* The environment variable validate_environment names for each field.
EnvKey(key) ==
    CASE key = "reddit_client_id"     -> "REDDIT_CLIENT_ID"
      [] key = "reddit_client_secret" -> "REDDIT_CLIENT_SECRET"
      [] key = "reddit_user_agent"    -> "REDDIT_USER_AGENT"
      [] key = "reddit_username"      -> "REDDIT_USERNAME"
      [] key = "reddit_password"      -> "REDDIT_PASSWORD"

EnvNames == {EnvKey(f) : f \in FieldSet}

\* Inputs: a keyword is absent or carries "arg"; a variable is unset or "env".
ArgValues == {Missing, "arg"}
EnvValues == {Missing, "env"}

\* langchain_core.utils.get_from_dict_or_env: the explicit value if there is
\* one, else the environment fallback, else a configuration error.
get_from_dict_or_env(data, key, env_key, environ) ==
    IF data[key] # Missing THEN [ok |-> TRUE, value |-> data[key]]
    ELSE IF environ[env_key] # Missing
         THEN [ok |-> TRUE, value |-> environ[env_key]]
         ELSE [ok |-> FALSE, value |-> None]

Resolve(data, environ, key) ==
    get_from_dict_or_env(data, key, EnvKey(key), environ)

\* Exceptions: the class raised and the words of its message.
ValueError(key) ==
    [type |-> "ValueError", msg |-> <<"Did", "not", "find", key>>]

\* Mutant: the message names the package but gives no installation hint.
ImportError_no_hint ==
    [type |-> "ImportError", msg |-> <<"praw", "package", "not", "found.">>]

\* raise ImportError("praw package not found. Please install with: pip install praw")
ImportError ==
    [type |-> "ImportError",
     msg  |-> <<"praw", "package", "not", "found.", "Please", "install",
                "with:", "pip", "install", "praw">>]

\* praw.Reddit(client_id=..., ...): a new session handle; n handles exist.
praw_Reddit(client_id, client_secret, user_agent, username, password, n) ==
    [handle        |-> n + 1,
     client_id     |-> client_id,
     client_secret |-> client_secret,
     user_agent    |-> user_agent,
     username      |-> username,
     password      |-> password]

\* Index of the first credential that resolves from neither source, or 0.
FirstUnresolved(data, environ) ==
    LET bad == {i \in 1..Len(CredentialFields) :
                  ~Resolve(data, environ, CredentialFields[i]).ok}
    IN IF bad = {} THEN 0 ELSE CHOOSE i \in bad : \A j \in bad : i <= j

\* Mutant: praw is imported and the session created before the credentials
\* are checked.
validate_environment_session_first(data, environ, praw, n) ==
    LET v(key) == Resolve(data, environ, key).value
        client == praw_Reddit(v("reddit_client_id"), v("reddit_client_secret"),
                              v("reddit_user_agent"), v("reddit_username"),
                              v("reddit_password"), n)
        miss   == FirstUnresolved(data, environ)
    IN  IF ~praw
        THEN [values |-> <<>>, created |-> <<>>, exc |-> <<ImportError>>]
        ELSE IF miss # 0
        THEN [values |-> <<>>, created |-> <<client>>,
              exc |-> <<ValueError(CredentialFields[miss])>>]
        ELSE [values  |-> <<[reddit_client        |-> client,
                             reddit_client_id     |-> v("reddit_client_id"),
                             reddit_client_secret |-> v("reddit_client_secret"),
                             reddit_user_agent    |-> v("reddit_user_agent"),
                             reddit_username      |-> v("reddit_username"),
                             reddit_password      |-> v("reddit_password")]>>,
              created |-> <<client>>,
              exc     |-> <<>>]

\* Mutant: username and password change places in the call of praw.Reddit.
validate_environment_swapped(data, environ, praw, n) ==
    LET v(key) == Resolve(data, environ, key).value
        client == praw_Reddit(v("reddit_client_id"), v("reddit_client_secret"),
                              v("reddit_user_agent"), v("reddit_password"),
                              v("reddit_username"), n)
        miss   == FirstUnresolved(data, environ)
    IN  IF miss # 0
        THEN [values |-> <<>>, created |-> <<>>,
              exc |-> <<ValueError(CredentialFields[miss])>>]
        ELSE IF ~praw
        THEN [values |-> <<>>, created |-> <<>>, exc |-> <<ImportError>>]
        ELSE [values  |-> <<[reddit_client        |-> client,
                             reddit_client_id     |-> v("reddit_client_id"),
                             reddit_client_secret |-> v("reddit_client_secret"),
                             reddit_user_agent    |-> v("reddit_user_agent"),
                             reddit_username      |-> v("reddit_username"),
                             reddit_password      |-> v("reddit_password")]>>,
              created |-> <<client>>,
              exc     |-> <<>>]

\* RedditCommentAPIWrapper.validate_environment, the "before" validator that
\* runs when the wrapper is constructed: resolve the five credentials in
\* order, import praw, create the session.  Returns the values the object is
\* built from (values), the session handles it had praw create (created) and
\* the exception it raised (exc); n session handles existed before the call.
validate_environment(data, environ, praw, n) ==
    LET v(key) == Resolve(data, environ, key).value
        client == praw_Reddit(v("reddit_client_id"), v("reddit_client_secret"),
                              v("reddit_user_agent"), v("reddit_username"),
                              v("reddit_password"), n)
        miss   == FirstUnresolved(data, environ)
    IN  IF miss # 0
        THEN [values |-> <<>>, created |-> <<>>,
              exc |-> <<ValueError(CredentialFields[miss])>>]
        ELSE IF ~praw
        THEN [values |-> <<>>, created |-> <<>>, exc |-> <<ImportError>>]
        ELSE [values  |-> <<[reddit_client        |-> client,
                             reddit_client_id     |-> v("reddit_client_id"),
                             reddit_client_secret |-> v("reddit_client_secret"),
                             reddit_user_agent    |-> v("reddit_user_agent"),
                             reddit_username      |-> v("reddit_username"),
                             reddit_password      |-> v("reddit_password")]>>,
              created |-> <<client>>,
              exc     |-> <<>>]

----------------------------------------------------------------------------
(* The remote service, as seen through a session handle *)

SubmissionIds == {"abc123", "def456"}
CommentTexts  == {"Hello from my script!", "Second thoughts"}

\* Failures the remote calls can report: the lookup of an unknown or
\* deleted submission, the reply by an account that may not comment.
LookupErrors == {"NotFound"}
ReplyErrors  == {"Forbidden"}
RemoteErrors == LookupErrors \cup ReplyErrors

\* The relative path the service reports for the n-th comment it stores.
Permalink(sub, n) ==
    "/r/test/comments/" \o sub \o "/_/xyz" \o ToString(788 + n) \o "/"

\* The exception a failing remote call raises.
RemoteException(err) == [type |-> err, msg |-> <<>>]

\* self.reddit_client.submission(id=submission_id)
CallSubmission(client, submission_id, outcome) ==
    [op |-> "submission", via |-> client.handle, sub |-> submission_id,
     text |-> None, outcome |-> outcome, reported |-> None]

\* submission.reply(comment_text); permalink is what the service reports
\* for the comment when the call succeeds.
CallReply(client, sub, text, outcome, permalink) ==
    [op |-> "reply", via |-> client.handle, sub |-> sub, text |-> text,
     outcome |-> outcome,
     reported |-> IF outcome = "ok" THEN permalink ELSE None]

----------------------------------------------------------------------------
(* RedditCommentAPIWrapper.run *)

ResultPrefix == "Comment posted! View at: https://www.reddit.com"

\* The f-string run returns.
FormatResult_no_host(permalink) == "Comment posted! View at: " \o permalink

FormatResult(permalink) == ResultPrefix \o permalink

\* What the remote service will answer during one invocation: the outcome of
\* the lookup, the outcome of the reply, and the comments it already stores.
\* A reply that returns has stored the comment and reports its permalink; a
\* reply that raises has stored nothing.
Remotes(stored) ==
    {[lookup |-> "ok", reply |-> o, comments |-> stored] :
        o \in {"ok"} \cup ReplyErrors}
    \cup {[lookup |-> e, reply |-> "ok", comments |-> stored] :
            e \in LookupErrors}

\* A run outcome: the object afterwards (self), session handles created
\* (sessions), remote calls made in order (calls), comments the service
\* stored (created), the string returned (ret) or the exception raised (exc).

\* Mutant: a failed reply is issued a second time.
run_retry(self, submission_id, comment_text, remote) ==
    LET client == self.reddit_client
        lookup == CallSubmission(client, submission_id, remote.lookup)
        link   == Permalink(submission_id, Len(remote.comments) + 1)
        reply  == CallReply(client, submission_id, comment_text,
                            remote.reply, link)
    IN  IF remote.lookup # "ok"
        THEN [self |-> self, sessions |-> <<>>, calls |-> <<lookup>>,
              created |-> <<>>, ret |-> <<>>,
              exc |-> <<RemoteException(remote.lookup)>>]
        ELSE IF remote.reply # "ok"
        THEN [self |-> self, sessions |-> <<>>,
              calls |-> <<lookup, reply, reply>>,
              created |-> <<>>, ret |-> <<>>,
              exc |-> <<RemoteException(remote.reply)>>]
        ELSE [self |-> self, sessions |-> <<>>, calls |-> <<lookup, reply>>,
              created |-> <<[sub |-> submission_id, text |-> comment_text,
                             permalink |-> link]>>,
              ret |-> <<FormatResult(link)>>, exc |-> <<>>]

\* Mutant: a failed reply is swallowed and a confirmation returned anyway.
run_swallow(self, submission_id, comment_text, remote) ==
    LET client == self.reddit_client
        lookup == CallSubmission(client, submission_id, remote.lookup)
        link   == Permalink(submission_id, Len(remote.comments) + 1)
        reply  == CallReply(client, submission_id, comment_text,
                            remote.reply, link)
    IN  IF remote.lookup # "ok"
        THEN [self |-> self, sessions |-> <<>>, calls |-> <<lookup>>,
              created |-> <<>>, ret |-> <<>>,
              exc |-> <<RemoteException(remote.lookup)>>]
        ELSE IF remote.reply # "ok"
        THEN [self |-> self, sessions |-> <<>>, calls |-> <<lookup, reply>>,
              created |-> <<>>, ret |-> <<FormatResult("")>>, exc |-> <<>>]
        ELSE [self |-> self, sessions |-> <<>>, calls |-> <<lookup, reply>>,
              created |-> <<[sub |-> submission_id, text |-> comment_text,
                             permalink |-> link]>>,
              ret |-> <<FormatResult(link)>>, exc |-> <<>>]

\* Mutant: a comment already stored with the same arguments is not repeated.
run_dedup(self, submission_id, comment_text, remote) ==
    LET client == self.reddit_client
        lookup == CallSubmission(client, submission_id, remote.lookup)
        link   == Permalink(submission_id, Len(remote.comments) + 1)
        reply  == CallReply(client, submission_id, comment_text,
                            remote.reply, link)
        same   == {i \in 1..Len(remote.comments) :
                     /\ remote.comments[i].sub = submission_id
                     /\ remote.comments[i].text = comment_text}
    IN  IF remote.lookup # "ok"
        THEN [self |-> self, sessions |-> <<>>, calls |-> <<lookup>>,
              created |-> <<>>, ret |-> <<>>,
              exc |-> <<RemoteException(remote.lookup)>>]
        ELSE IF same # {}
        THEN [self |-> self, sessions |-> <<>>, calls |-> <<lookup>>,
              created |-> <<>>,
              ret |-> <<FormatResult(
                          remote.comments[CHOOSE i \in same : TRUE].permalink)>>,
              exc |-> <<>>]
        ELSE IF remote.reply # "ok"
        THEN [self |-> self, sessions |-> <<>>, calls |-> <<lookup, reply>>,
              created |-> <<>>, ret |-> <<>>,
              exc |-> <<RemoteException(remote.reply)>>]
        ELSE [self |-> self, sessions |-> <<>>, calls |-> <<lookup, reply>>,
              created |-> <<[sub |-> submission_id, text |-> comment_text,
                             permalink |-> link]>>,
              ret |-> <<FormatResult(link)>>, exc |-> <<>>]

\* Mutant: every invocation logs in again and keeps the new session handle.
run_new_session(self, submission_id, comment_text, remote) ==
    LET client == praw_Reddit(self.reddit_client_id, self.reddit_client_secret,
                              self.reddit_user_agent, self.reddit_username,
                              self.reddit_password,
                              self.reddit_client.handle)
        me     == [self EXCEPT !.reddit_client = client]
        lookup == CallSubmission(client, submission_id, remote.lookup)
        link   == Permalink(submission_id, Len(remote.comments) + 1)
        reply  == CallReply(client, submission_id, comment_text,
                            remote.reply, link)
    IN  IF remote.lookup # "ok"
        THEN [self |-> me, sessions |-> <<client>>, calls |-> <<lookup>>,
              created |-> <<>>, ret |-> <<>>,
              exc |-> <<RemoteException(remote.lookup)>>]
        ELSE IF remote.reply # "ok"
        THEN [self |-> me, sessions |-> <<client>>, calls |-> <<lookup, reply>>,
              created |-> <<>>, ret |-> <<>>,
              exc |-> <<RemoteException(remote.reply)>>]
        ELSE [self |-> me, sessions |-> <<client>>, calls |-> <<lookup, reply>>,
              created |-> <<[sub |-> submission_id, text |-> comment_text,
                             permalink |-> link]>>,
              ret |-> <<FormatResult(link)>>, exc |-> <<>>]

\* Mutant: the reply is issued before the submission has been looked up.
run_reply_first(self, submission_id, comment_text, remote) ==
    LET client == self.reddit_client
        lookup == CallSubmission(client, submission_id, remote.lookup)
        link   == Permalink(submission_id, Len(remote.comments) + 1)
        reply  == CallReply(client, submission_id, comment_text,
                            remote.reply, link)
    IN  IF remote.reply # "ok"
        THEN [self |-> self, sessions |-> <<>>, calls |-> <<reply>>,
              created |-> <<>>, ret |-> <<>>,
              exc |-> <<RemoteException(remote.reply)>>]
        ELSE IF remote.lookup # "ok"
        THEN [self |-> self, sessions |-> <<>>, calls |-> <<reply, lookup>>,
              created |-> <<[sub |-> submission_id, text |-> comment_text,
                             permalink |-> link]>>,
              ret |-> <<>>, exc |-> <<RemoteException(remote.lookup)>>]
        ELSE [self |-> self, sessions |-> <<>>, calls |-> <<reply, lookup>>,
              created |-> <<[sub |-> submission_id, text |-> comment_text,
                             permalink |-> link]>>,
              ret |-> <<FormatResult(link)>>, exc |-> <<>>]

\* RedditCommentAPIWrapper.run: look the submission up, reply to it, format
\* the permalink of the new comment.  An exception of either remote call
\* leaves the method at once; nothing catches it.
run(self, submission_id, comment_text, remote) ==
    LET client == self.reddit_client
        lookup == CallSubmission(client, submission_id, remote.lookup)
        submission == [id |-> submission_id]
        link   == Permalink(submission.id, Len(remote.comments) + 1)
        reply  == CallReply(client, submission.id, comment_text,
                            remote.reply, link)
    IN  IF remote.lookup # "ok"
        THEN [self |-> self, sessions |-> <<>>, calls |-> <<lookup>>,
              created |-> <<>>, ret |-> <<>>,
              exc |-> <<RemoteException(remote.lookup)>>]
        ELSE IF remote.reply # "ok"
        THEN [self |-> self, sessions |-> <<>>, calls |-> <<lookup, reply>>,
              created |-> <<>>, ret |-> <<>>,
              exc |-> <<RemoteException(remote.reply)>>]
        ELSE [self |-> self, sessions |-> <<>>, calls |-> <<lookup, reply>>,
              created |-> <<[sub |-> submission_id, text |-> comment_text,
                             permalink |-> link]>>,
              ret |-> <<FormatResult(link)>>, exc |-> <<>>]

----------------------------------------------------------------------------
(* The tool: RedditCommentSchema and RedditCommentRun *)

\* The fields RedditCommentSchema declares.
SchemaFields == {"submission_id", "comment_text"}

\* Mutant: comment_text is given a default and so is no longer required.
RequiredFields_text_optional == {"submission_id"}

\* The fields declared without a default: both.
RequiredFields == SchemaFields

\* A tool input: each field carries a string or is left out.
ToolInputs ==
    {[submission_id |-> s, comment_text |-> t] :
        s \in SubmissionIds \cup {Missing}, t \in CommentTexts \cup {Missing}}

NoInput == [submission_id |-> Missing, comment_text |-> Missing]

ValidationError(fields) ==
    [type |-> "ValidationError",
     msg  |-> IF "submission_id" \in fields
              THEN IF "comment_text" \in fields
                   THEN <<"submission_id", "comment_text">>
                   ELSE <<"submission_id">>
              ELSE IF "comment_text" \in fields
                   THEN <<"comment_text">> ELSE <<>>]

\* The host framework validates the input against args_schema before it
\* calls _run: a required field left out is a validation error; a field
\* with a default that is left out takes the default.
ParseInput(tool_input) ==
    LET absent == {f \in RequiredFields : tool_input[f] = Missing}
    IN  IF absent # {}
        THEN [ok |-> FALSE, args |-> NoInput, exc |-> <<ValidationError(absent)>>]
        ELSE [ok   |-> TRUE,
              args |-> [f \in SchemaFields |->
                          IF tool_input[f] = Missing THEN "" ELSE tool_input[f]],
              exc  |-> <<>>]

\* RedditCommentRun._run: hand both arguments to the wrapper.
tool_run(api_wrapper, submission_id, comment_text, remote) ==
    run(api_wrapper, submission_id, comment_text, remote)

----------------------------------------------------------------------------
(* State machine *)

Init ==
    /\ values \in [FieldSet -> ArgValues]
    /\ env \in [EnvNames -> EnvValues]
    /\ prawAvailable \in BOOLEAN
    /\ phase = "init"
    /\ wrapper = <<>>
    /\ sessions = <<>>
    /\ calls = <<>>
    /\ comments = <<>>
    /\ runs = <<>>
    /\ last = [input |-> NoInput, ret |-> <<>>, exc |-> <<>>]
    /\ rejected = 0

\* RedditCommentAPIWrapper(**values): the validator runs, then the object
\* is built from the values it returned.
Construct ==
    /\ phase = "init"
    /\ LET out == validate_environment(values, env, prawAvailable, Len(sessions))
       IN  /\ sessions' = sessions \o out.created
           /\ wrapper' = out.values
           /\ phase' = IF out.exc = <<>> THEN "constructed" ELSE "failed"
           /\ last' = [input |-> NoInput, ret |-> <<>>, exc |-> out.exc]
    /\ UNCHANGED <<values, env, prawAvailable, calls, comments, runs, rejected>>

\* The log entries of invocation k.
CallEntries(cs, k) ==
    [i \in 1..Len(cs) |->
        [run |-> k, op |-> cs[i].op, via |-> cs[i].via, sub |-> cs[i].sub,
         text |-> cs[i].text, outcome |-> cs[i].outcome,
         reported |-> cs[i].reported]]

CommentEntries(cs, k) ==
    [i \in 1..Len(cs) |->
        [run |-> k, sub |-> cs[i].sub, text |-> cs[i].text,
         permalink |-> cs[i].permalink]]

\* The effect of one invocation of run whose outcome is out.
Apply(input, submission_id, comment_text, out) ==
    LET k == Len(runs) + 1
    IN  /\ wrapper' = <<out.self>>
        /\ sessions' = sessions \o out.sessions
        /\ calls' = calls \o CallEntries(out.calls, k)
        /\ comments' = comments \o CommentEntries(out.created, k)
        /\ runs' = Append(runs, [sub |-> submission_id, text |-> comment_text,
                                 ret |-> out.ret, exc |-> out.exc])
        /\ last' = [input |-> input, ret |-> out.ret, exc |-> out.exc]

\* A caller invokes wrapper.run(submission_id, comment_text) directly.
Run ==
    /\ phase = "constructed"
    /\ Len(runs) + rejected < MaxRuns
    /\ \E s \in SubmissionIds, t \in CommentTexts, remote \in Remotes(comments) :
          Apply([submission_id |-> s, comment_text |-> t], s, t,
                run(wrapper[1], s, t, remote))
    /\ UNCHANGED <<values, env, prawAvailable, phase, rejected>>

\* The agent framework invokes the tool reddit_comment with an input that
\* passes the schema.
ToolRun ==
    /\ phase = "constructed"
    /\ Len(runs) + rejected < MaxRuns
    /\ \E input \in ToolInputs, remote \in Remotes(comments) :
          LET parsed == ParseInput(input)
          IN  /\ parsed.ok
              /\ Apply(input, parsed.args.submission_id,
                       parsed.args.comment_text,
                       tool_run(wrapper[1], parsed.args.submission_id,
                                parsed.args.comment_text, remote))
    /\ UNCHANGED <<values, env, prawAvailable, phase, rejected>>

\* The agent framework invokes the tool with an input the schema refuses.
ToolReject ==
    /\ phase = "constructed"
    /\ Len(runs) + rejected < MaxRuns
    /\ \E input \in ToolInputs :
          LET parsed == ParseInput(input)
          IN  /\ ~parsed.ok
              /\ last' = [input |-> input, ret |-> <<>>, exc |-> parsed.exc]
    /\ rejected' = rejected + 1
    /\ UNCHANGED <<values, env, prawAvailable, phase, wrapper, sessions,
                   calls, comments, runs>>

Next == Construct \/ Run \/ ToolRun \/ ToolReject

Spec == Init /\ [][Next]_vars

----------------------------------------------------------------------------
(* Vocabulary of the properties *)

\* The credentials that have neither an explicit value nor a fallback.
Unresolved ==
    {f \in FieldSet : values[f] = Missing /\ env[EnvKey(f)] = Missing}

\* The latest operation raised an exception of class cls.
Raised(cls) == Len(last.exc) = 1 /\ last.exc[1].type = cls

\* The three error kinds of the design, as the Python classes raised.
ConfigurationError     == "ValueError"
DependencyMissingError == "ImportError"

Words(msg) == {msg[i] : i \in 1..Len(msg)}

HasInstallHint(msg) ==
    \E i \in 1..Len(msg) - 2 :
        msg[i] = "pip" /\ msg[i + 1] = "install" /\ msg[i + 2] = "praw"

RunIds == 1..Len(runs)

\* The positions in the call log of the remote calls of invocation k.
CallsOf(k) == {i \in 1..Len(calls) : calls[i].run = k}
LookupsOf(k) == {i \in CallsOf(k) : calls[i].op = "submission"}
RepliesOf(k) == {i \in CallsOf(k) : calls[i].op = "reply"}

\* The stored comments that invocation k created.
CommentsOf(k) == {i \in 1..Len(comments) : comments[i].run = k}

Returned(k) == runs[k].ret # <<>>
Failed(k)   == runs[k].exc # <<>>
PastLookup(k) == \E i \in LookupsOf(k) : calls[i].outcome = "ok"

----------------------------------------------------------------------------
(* Properties *)

\* C1: a credential with neither an explicit value nor an environment
\* fallback makes construction fail with a configuration error, praw.Reddit
\* is never called, and neither a wrapper nor a session handle exists.
C1_MissingCredentialFailsBeforeSession ==
    (phase # "init" /\ Unresolved # {}) =>
        /\ phase = "failed"
        /\ Raised(ConfigurationError)
        /\ wrapper = <<>>
        /\ sessions = <<>>
        /\ calls = <<>>

C1_Witness ==
    /\ phase = "failed"
    /\ prawAvailable
    /\ Unresolved = {"reddit_password"}

\* C2: with all five credentials resolvable and praw present, construction
\* succeeds; praw.Reddit was called exactly once, during construction and
\* before any remote call, with the five resolved values, and the wrapper
\* holds the one handle that call returned.
C2_OneSessionAtConstruction ==
    /\ phase = "init" => sessions = <<>> /\ calls = <<>> /\ runs = <<>>
    /\ (phase # "init" /\ Unresolved = {} /\ prawAvailable) =>
          /\ phase = "constructed"
          /\ Len(sessions) = 1
          /\ sessions[1].client_id =
                Resolve(values, env, "reddit_client_id").value
          /\ sessions[1].client_secret =
                Resolve(values, env, "reddit_client_secret").value
          /\ sessions[1].user_agent =
                Resolve(values, env, "reddit_user_agent").value
          /\ sessions[1].username =
                Resolve(values, env, "reddit_username").value
          /\ sessions[1].password =
                Resolve(values, env, "reddit_password").value
          /\ wrapper = <<[reddit_client |-> sessions[1],
                reddit_client_id |-> sessions[1].client_id,
                reddit_client_secret |-> sessions[1].client_secret,
                reddit_user_agent |-> sessions[1].user_agent,
                reddit_username |-> sessions[1].username,
                reddit_password |-> sessions[1].password]>>

C2_Witness ==
    /\ phase = "constructed"
    /\ Len(runs) = 2
    /\ values["reddit_username"] = "arg"
    /\ values["reddit_password"] = Missing
    /\ env["REDDIT_USERNAME"] = "env"

\* C3: whenever lookup and reply of an invocation succeed, run returns
\* exactly "Comment posted! View at: https://www.reddit.com" followed by the
\* permalink the service reported for the new comment.
C3_ConfirmationString ==
    \A k \in RunIds : \A i \in RepliesOf(k) :
        (PastLookup(k) /\ calls[i].outcome = "ok") =>
            /\ runs[k].exc = <<>>
            /\ runs[k].ret = <<"Comment posted! View at: https://www.reddit.com"
                                \o calls[i].reported>>
            /\ calls[i].reported = "/r/test/comments/abc123/_/xyz789/" =>
                  runs[k].ret = <<"Comment posted! View at: https://www.reddit.com/r/test/comments/abc123/_/xyz789/">>

C3_Witness ==
    \E k \in RunIds :
        /\ runs[k].sub = "abc123"
        /\ runs[k].text = "Hello from my script!"
        /\ runs[k].ret = <<"Comment posted! View at: https://www.reddit.com/r/test/comments/abc123/_/xyz789/">>

\* C4: when the lookup or the reply of an invocation fails, run raises the
\* error carrying that failure, returns no string, and makes no further
\* remote call in that invocation (the failed call is not repeated).
C4_RemoteFailurePropagates ==
    \A k \in RunIds : \A i \in CallsOf(k) :
        calls[i].outcome # "ok" =>
            /\ runs[k].ret = <<>>
            /\ Len(runs[k].exc) = 1
            /\ runs[k].exc[1].type = calls[i].outcome
            /\ \A j \in CallsOf(k) : j <= i
            /\ \A j \in CallsOf(k) : calls[j].op = calls[i].op => j = i
            /\ CommentsOf(k) = {}

C4_Witness ==
    /\ \E k \in RunIds : \E i \in LookupsOf(k) : calls[i].outcome = "NotFound"
    /\ \E k \in RunIds : \E i \in RepliesOf(k) : calls[i].outcome = "Forbidden"

\* C5: run does not deduplicate: there is exactly one reply call per
\* invocation that got past lookup and none for the others, every successful
\* invocation stored its own comment, and two successful invocations with
\* the same arguments stored two comments.
C5_NoDeduplication ==
    /\ \A k \in RunIds :
          Cardinality(RepliesOf(k)) = IF PastLookup(k) THEN 1 ELSE 0
    /\ Cardinality({i \in 1..Len(calls) : calls[i].op = "reply"})
          = Cardinality({k \in RunIds : PastLookup(k)})
    /\ Len(comments) = Cardinality({k \in RunIds : Returned(k)})
    /\ \A j, k \in RunIds :
          (j < k /\ Returned(j) /\ Returned(k)) =>
              \E a \in CommentsOf(j), b \in CommentsOf(k) :
                  /\ a # b
                  /\ comments[a].permalink # comments[b].permalink
                  /\ comments[a].text = runs[j].text
                  /\ comments[b].text = runs[k].text

C5_Witness ==
    \E j, k \in RunIds :
        /\ j < k
        /\ runs[j].sub = runs[k].sub
        /\ runs[j].text = runs[k].text
        /\ Returned(j) /\ Returned(k)
        /\ Len(comments) = 2

\* C6: every invocation of run ends either with a comment stored and the
\* confirmation string for its permalink returned, or with no comment
\* stored and an exception raised; never both, never neither.
C6_CreatedIffReturned ==
    \A k \in RunIds :
        /\ Returned(k) # Failed(k)
        /\ Returned(k) <=> CommentsOf(k) # {}
        /\ Cardinality(CommentsOf(k)) <= 1
        /\ \A c \in CommentsOf(k) :
              runs[k].ret = <<"Comment posted! View at: https://www.reddit.com"
                                \o comments[c].permalink>>

C6_Witness ==
    /\ \E k \in RunIds : Returned(k) /\ CommentsOf(k) # {}
    /\ \E k \in RunIds : Failed(k) /\ RepliesOf(k) # {} /\ CommentsOf(k) = {}

\* C7: a tool invocation that leaves out submission_id or comment_text is
\* refused with a validation error and makes no remote call, so nothing is
\* looked up, replied to or stored; an invocation carrying both reaches run.
C7_SchemaRejectsBeforeRemote ==
    [][phase = "constructed" =>
        /\ (\E f \in SchemaFields : last'.input[f] = Missing) =>
              /\ calls' = calls
              /\ comments' = comments
              /\ runs' = runs
              /\ rejected' = rejected + 1
              /\ last'.ret = <<>>
              /\ Len(last'.exc) = 1
              /\ last'.exc[1].type = "ValidationError"
        /\ (\A f \in SchemaFields : last'.input[f] # Missing) =>
              /\ rejected' = rejected
              /\ Len(runs') = Len(runs) + 1
              /\ Len(calls') > Len(calls)]_vars

C7_Witness ==
    /\ rejected = 1
    /\ last.input["submission_id"] = "abc123"
    /\ last.input["comment_text"] = Missing
    /\ Raised("ValidationError")
    /\ Len(comments) = 1

\* C8 as stated: whenever praw is unavailable, construction fails with the
\* missing-dependency error (naming praw, with the installation hint) and no
\* session handle is created.
C8_Original ==
    (phase # "init" /\ ~prawAvailable) =>
        /\ phase = "failed"
        /\ Raised(DependencyMissingError)
        /\ "praw" \in Words(last.exc[1].msg)
        /\ HasInstallHint(last.exc[1].msg)
        /\ sessions = <<>>

\* C8: when praw is unavailable construction fails and no session handle is
\* created; the failure is the missing-dependency error, naming praw and
\* giving the installation hint, when all five credentials resolve, and the
\* configuration error when one of them does not (it is checked first).
C8_MissingDependency ==
    (phase # "init" /\ ~prawAvailable) =>
        /\ phase = "failed"
        /\ sessions = <<>>
        /\ wrapper = <<>>
        /\ Unresolved = {} =>
              /\ Raised(DependencyMissingError)
              /\ "praw" \in Words(last.exc[1].msg)
              /\ HasInstallHint(last.exc[1].msg)
        /\ Unresolved # {} => Raised(ConfigurationError)

C8_Witness ==
    /\ phase = "failed"
    /\ ~prawAvailable
    /\ Unresolved = {}
    /\ Raised("ImportError")

\* C9: no invocation, successful or failed, changes the wrapper's session
\* handle or credentials or creates a session, and every remote call goes
\* through the handle created at construction.
C9_SessionReused ==
    [][phase = "constructed" =>
        /\ wrapper' = wrapper
        /\ sessions' = sessions
        /\ \A i \in 1..Len(calls') :
              calls'[i].via = wrapper[1].reddit_client.handle]_vars

C9_Witness ==
    /\ Len(runs) = 2
    /\ Returned(1) /\ Failed(2)
    /\ rejected = 0
    /\ wrapper[1].reddit_client = sessions[1]
    /\ \A i \in 1..Len(calls) : calls[i].via = sessions[1].handle

\* C10: within an invocation the submission is looked up first, with the
\* identifier given; one reply, on that submission and with the text given,
\* follows only a lookup that succeeded; a failed lookup is followed by no
\* reply.
C10_LookupThenReply ==
    \A k \in RunIds :
        /\ Cardinality(LookupsOf(k)) = 1
        /\ \A i \in LookupsOf(k) :
              /\ calls[i].sub = runs[k].sub
              /\ \A j \in CallsOf(k) : i <= j
              /\ calls[i].outcome # "ok" => RepliesOf(k) = {}
        /\ Cardinality(RepliesOf(k)) <= 1
        /\ \A j \in RepliesOf(k) :
              /\ \E i \in LookupsOf(k) : i < j /\ calls[i].outcome = "ok"
              /\ calls[j].sub = runs[k].sub
              /\ calls[j].text = runs[k].text
              /\ calls[j].via = calls[CHOOSE i \in LookupsOf(k) : TRUE].via

C10_Witness ==
    /\ \E k \in RunIds : RepliesOf(k) = {} /\ Failed(k)
    /\ \E k \in RunIds : \E j \in RepliesOf(k) :
          calls[j].text = "Second thoughts" /\ calls[j].sub = "def456"

====
